---- MODULE Spec2Model ----
(***************************************************************************)
(* Data catalog: Events, Properties, Tracking Plans and the join rows that *)
(* bind them.  The model follows the service layer                         *)
(* (TrackingPlanService, EventService, PropertyService), the repositories  *)
(* it calls and the controller / errorHandler that turn a service result   *)
(* into an HTTP response.                                                  *)
(*                                                                         *)
(* Store semantics.  Every repository of the services is obtained from     *)
(* AppDataSource.getRepository (BaseRepository.constructor), so each of    *)
(* its statements runs on a pooled connection and is committed on its own. *)
(* Only the two link repositories of createTrackingPlan and                *)
(* updateTrackingPlan come from queryRunner.manager and take part in the   *)
(* transaction the queryRunner started: their writes are pending in tx[p]  *)
(* until commitTransaction and are dropped by rollbackTransaction.         *)
(***************************************************************************)
EXTENDS Integers, Sequences, FiniteSets, TLC

\* ---------------------------------------------------------------- bounds
MaxOps == 3        \* requests started in one behaviour
MaxEvents == 2     \* events in one submitted plan
MaxProps == 2      \* properties under one submitted event

\* ------------------------------------------------------ validation rules
\* A JS value of a rule member: typeof t, numeric value n, string value s.
Num(n) == [t |-> "number", n |-> n, s |-> ""]
Str(s) == [t |-> "string", n |-> 0, s |-> s]
NoVal == [t |-> "undefined", n |-> 0, s |-> ""]

Member(k, v) == [key |-> k, val |-> v]

\* validation_rules as it appears in a request or in an entity:
\* undefined, null, or an object whose members keep their order.
RUndefined == [kind |-> "undefined", members |-> <<>>]
RNull == [kind |-> "null", members |-> <<>>]
Obj(ms) == [kind |-> "object", members |-> ms]

\* JS truthiness of a rule set (an object, even {}, is truthy).
TruthyRules(r) == r.kind = "object"

\* JS truthiness of a member value.
Truthy(v) ==
  \/ v.t = "number" /\ v.n # 0
  \/ v.t = "string" /\ v.s # ""
  \/ v.t = "array"

\* rules.<key>: the value of the last member with that key, or undefined.
Get(r, k) ==
  LET hits == SelectSeq(r.members, LAMBDA m : m.key = k)
  IN IF hits = <<>> THEN NoVal ELSE hits[Len(hits)].val

\* Patterns that new RegExp rejects.
InvalidPatterns == {"["}

RegExpCompiles(v) == ~(v.t = "string" /\ v.s \in InvalidPatterns)

RECURSIVE StringifyMembers(_)
StringifyMembers(ms) ==
  IF ms = <<>> THEN <<>>
  ELSE LET m == ms[1]
           v == IF m.val.t = "number" THEN <<ToString(m.val.n)>>
                ELSE <<"\"", m.val.s, "\"">>
       IN <<m.key, ":">> \o v \o
          (IF Len(ms) > 1 THEN <<",">> ELSE <<>>) \o StringifyMembers(Tail(ms))

\* JSON.stringify of a rule set, as a token sequence; <<"undefined">> stands
\* for the value undefined that JSON.stringify(undefined) returns.
JSONstringify(r) ==
  IF r.kind = "object" THEN <<"{">> \o StringifyMembers(r.members) \o <<"}">>
  ELSE IF r.kind = "null" THEN <<"null">>
  ELSE <<"undefined">>

\* The order in which a jsonb column returns object keys
\* (shorter keys first, then bytewise).
JsonbKeys == <<"max", "min", "enum", "regex", "custom">>

\* What a nullable jsonb column holds after an insert of r and returns on a
\* later read: null for an absent value, else the object with its keys in
\* jsonb order and one member per key.
Jsonb(r) ==
  IF r.kind # "object" THEN RNull
  ELSE LET pick(k) == IF Get(r, k) = NoVal THEN <<>> ELSE <<Member(k, Get(r, k))>>
       IN Obj(pick(JsonbKeys[1]) \o pick(JsonbKeys[2]) \o pick(JsonbKeys[3])
              \o pick(JsonbKeys[4]) \o pick(JsonbKeys[5]))

\* ------------------------------------------------------------------ errors
\* A thrown error: its class, its message (a sequence of phrases) and, for
\* the classes that extend AppError, its statusCode.
Err(cls, msg, status) == [cls |-> cls, message |-> msg, statusCode |-> status]
NoError == Err("none", <<>>, 0)

AppErrorClasses ==
  {"AppError", "ValidationError", "NotFoundError", "ConflictError",
   "UniqueConstraintError"}

AppError(msg, status) == Err("AppError", msg, status)

ValidationError(msg) == Err("ValidationError", msg, 400)

NotFoundError(resource) == Err("NotFoundError", <<resource, "not found">>, 404)

ConflictError(msg) == Err("ConflictError", msg, 409)

UniqueConstraintError(field, value) ==
  Err("UniqueConstraintError", <<field>> \o value \o <<"already exists">>, 409)

\* The driver's error for a violated unique index.
DuplicateKeyError(index) ==
  Err("QueryFailedError",
      <<"duplicate key value", "violates unique constraint", index>>, 0)

\* Any other failure of a statement (connection lost, timeout, deadlock).
StorageError == Err("QueryFailedError", <<"storage failure">>, 0)

\* The TypeError of dereferencing null.
TypeError == Err("TypeError", <<"Cannot read properties of null">>, 0)

\* TypeORM's error for a rollback without an open transaction.
TransactionNotStartedError ==
  Err("TransactionNotStartedError", <<"Transaction is not started yet">>, 0)

\* String.prototype.includes on a message, for a phrase of the message.
Includes(msg, phrase) == \E k \in DOMAIN msg : msg[k] = phrase

\* ---------------------------------------------------------- request inputs
Procs == {1, 2}

\* "seq": one request at a time, the wider catalogue of definitions.
\* "conc": two requests in flight, the narrow catalogue.
\* "multi": one request at a time, two event identities, the narrow
\* catalogue of properties.
\* "typed": one request at a time, two event types and two property types.
\* "rules": one request at a time, the widest catalogue of rule sets.
\* "flags": one request at a time, two event identities, both values of
\* the flags of the links.
Profiles == {"seq", "conc", "multi", "typed", "rules", "plans", "flags"}

ActiveProcs(pf) == IF pf = "conc" THEN Procs ELSE {1}

\* Requests started in one behaviour of the profile.
OpsLimit(pf) ==
  IF pf = "seq" THEN MaxOps ELSE IF pf = "plans" THEN MaxOps + 1 ELSE MaxOps - 1

PlanNames == {"A", "B"}
PlanDescriptions(pf) == {"pd"}
EventNames == {"e1"}
MoreEventNames(pf) == IF pf \in {"multi", "flags"} THEN {"e2"} ELSE {}
EventTypes(pf) == {"track"}
MoreEventTypes(pf) == IF pf = "typed" THEN {"page"} ELSE {}
MoreEventDescriptions(pf) == {"d2"}
Descriptions == {"d1", "d2"}
EventDescriptions(pf) == IF pf \in {"seq", "multi"} THEN Descriptions ELSE {"d1"}
PropertyNames == {"p1"}
PropertyTypes(pf) == {"string"}
MorePropertyTypes(pf) ==
  IF pf = "typed" THEN {"number"}
  ELSE IF pf = "rules" THEN {"number", "boolean"}
  ELSE {}
PropertyDescriptions(pf) == IF pf = "seq" THEN Descriptions ELSE {"d1"}
\* The other types of the properties submitted inside a tracking plan.
MoreLinkedTypes(pf) == IF pf = "rules" THEN MorePropertyTypes(pf) ELSE {}
MorePropertyDescriptions(pf) == {"d1"}
\* required of the properties submitted inside a tracking plan.
Flags(pf) == IF pf = "flags" THEN BOOLEAN ELSE {TRUE}
\* additionalProperties of the events submitted inside a tracking plan.
EventFlags(pf) == {TRUE}
\* The flag submitted with the other event names.
MoreFlags(pf) == IF pf = "flags" THEN {FALSE} ELSE {TRUE}

RulesMin3 == Obj(<<Member("min", Num(3))>>)
RulesMinInvalid == Obj(<<Member("min", Str("invalid"))>>)

\* {}
RulesEmpty == Obj(<<>>)
\* {min: 3, max: 10} and {max: 10, min: 3}
RulesMinMax == Obj(<<Member("min", Num(3)), Member("max", Num(10))>>)
RulesMaxMin == Obj(<<Member("max", Num(10)), Member("min", Num(3))>>)
\* {min: ''}, {max: 'invalid'}, {regex: '['}
RulesMinBlank == Obj(<<Member("min", Str(""))>>)
RulesMaxInvalid == Obj(<<Member("max", Str("invalid"))>>)
RulesRegexInvalid == Obj(<<Member("regex", Str("["))>>)

\* The rule sets submitted with the type "string".
RuleInputs(pf) ==
  IF pf = "seq" THEN {RUndefined, RulesMin3, RulesMinInvalid}
  ELSE IF pf = "rules"
  THEN {RUndefined, RulesEmpty, RulesMinMax, RulesMaxMin, RulesMinInvalid,
        RulesMinBlank, RulesMaxInvalid, RulesRegexInvalid}
  ELSE IF pf = "multi" THEN {RUndefined, RulesMinMax}
  ELSE {RUndefined}

\* The rule sets submitted with another type.
MoreRuleInputs(pf, type) ==
  IF pf = "rules" /\ type = "number"
  THEN {RulesMinInvalid, RulesMaxInvalid, RulesRegexInvalid}
  ELSE IF pf = "rules" THEN {RulesRegexInvalid}
  ELSE {RUndefined}

\* CreatePropertyDto
CreatePropertyDtos(pf) ==
  [name : PropertyNames, type : PropertyTypes(pf),
   description : PropertyDescriptions(pf), validation_rules : RuleInputs(pf)]
  \cup UNION {[name : PropertyNames, type : {t},
               description : MorePropertyDescriptions(pf),
               validation_rules : MoreRuleInputs(pf, t)] : t \in MorePropertyTypes(pf)}

\* CreateEventDto
CreateEventDtos(pf) ==
  [name : EventNames, type : EventTypes(pf), description : EventDescriptions(pf)]
  \cup [name : EventNames, type : MoreEventTypes(pf), description : MoreEventDescriptions(pf)]

\* EventPropertyDto
EventPropertyDtos(pf) ==
  [name : PropertyNames, type : PropertyTypes(pf),
   description : PropertyDescriptions(pf), required : Flags(pf),
   validation_rules : RuleInputs(pf)]
  \cup UNION {[name : PropertyNames, type : {t},
               description : MorePropertyDescriptions(pf), required : Flags(pf),
               validation_rules : MoreRuleInputs(pf, t)] : t \in MoreLinkedTypes(pf)}

\* TrackingPlanEventDto.  Its properties list is read one element at a
\* time by the loop over eventData.properties; the model draws each element
\* when the loop reaches it, and likewise the elements of data.events.
TrackingPlanEventDtos(pf) ==
  [name : EventNames, type : EventTypes(pf), description : EventDescriptions(pf),
   additionalProperties : EventFlags(pf)]
  \cup [name : MoreEventNames(pf), type : EventTypes(pf), description : {"d1"},
        additionalProperties : MoreFlags(pf)]
  \cup [name : EventNames, type : MoreEventTypes(pf), description : MoreEventDescriptions(pf),
        additionalProperties : EventFlags(pf)]

\* CreateTrackingPlanDto (its events are drawn by the loop).
CreateTrackingPlanDtos(pf) ==
  [name : PlanNames, description : PlanDescriptions(pf)]

\* UpdateTrackingPlanDto: "" stands for an absent name or description
\* (both are falsy for the code); whether events is present is drawn where
\* the code tests it.
UpdateDescriptions(pf) == IF pf = "seq" THEN {"", "pd2"} ELSE {""}

UpdateTrackingPlanDtos(pf) ==
  [name : PlanNames \cup {""}, description : UpdateDescriptions(pf)]

NoData == [name |-> "", description |-> ""]

NoEventData ==
  [name |-> "", type |-> "", description |-> "", additionalProperties |-> FALSE]

NoPropertyData ==
  [name |-> "", type |-> "", description |-> "", required |-> FALSE,
   validation_rules |-> RUndefined]

\* ------------------------------------------------------------------- state
VARIABLES
  profile,     \* which catalogue and how many requests in flight
  plans,       \* table tracking_plans: row id = position
  events,      \* table events
  properties,  \* table properties
  tpe,         \* table tracking_plan_events (committed rows)
  ep,          \* table event_properties (committed rows)
  nops,        \* requests started so far
  pc,          \* per process: the await it is suspended at
  req,         \* per process: the request being served
  loc,         \* per process: the locals of the service method
  tx,          \* per process: the queryRunner's transaction
  result,      \* per process: the ServiceResponse of the last request
  response     \* per process: the HTTP response of the last request

vars == <<profile, plans, events, properties, tpe, ep, nops,
          pc, req, loc, tx, result, response>>

store == <<plans, events, properties, tpe, ep>>

NoLoc ==
  [trackingPlan |-> 0, i |-> 0, j |-> 0,
   eventData |-> NoEventData, event |-> 0, tpe |-> <<>>,
   propertyData |-> NoPropertyData, property |-> 0,
   createdEvents |-> <<>>, createdProperties |-> <<>>,
   error |-> NoError,
   before |-> [plans |-> <<>>, events |-> <<>>, properties |-> <<>>]]

\* The locals at the start of a tracking-plan request; before records the
\* Event and Property tables as the request found them (history only, no
\* action reads it).
NewLoc ==
  [NoLoc EXCEPT !.before = [plans |-> plans, events |-> events, properties |-> properties]]

NoTx == [state |-> "none", op |-> 0, tpe |-> {}, ep |-> {}, del |-> {}]

NoResult ==
  [success |-> FALSE, thrown |-> FALSE, code |-> "", message |-> <<>>,
   id |-> 0, events |-> <<>>]

NoResponse == [status |-> 0, code |-> "", message |-> <<>>]

NoReq == [kind |-> "none", op |-> 0, id |-> 0, data |-> NoData]

InitIn(pf) ==
  /\ profile = pf
  /\ plans = <<>>
  /\ events = <<>>
  /\ properties = <<>>
  /\ tpe = {}
  /\ ep = {}
  /\ nops = 0
  /\ pc = [p \in Procs |-> "idle"]
  /\ req = [p \in Procs |-> NoReq]
  /\ loc = [p \in Procs |-> NoLoc]
  /\ tx = [p \in Procs |-> NoTx]
  /\ result = [p \in Procs |-> NoResult]
  /\ response = [p \in Procs |-> NoResponse]

Init == InitIn("seq")

InitConc == InitIn("conc")

InitMulti == InitIn("multi")

InitTyped == InitIn("typed")

InitRules == InitIn("rules")

InitPlans == InitIn("plans")

InitFlags == InitIn("flags")

\* ------------------------------------------------------------ repositories
Min(S) == CHOOSE x \in S : \A y \in S : x <= y

\* repository.findOne: the first matching row id, 0 for null.
FindOne(S) == IF S = {} THEN 0 ELSE Min(S)

\* A lookup of events by name alone.
EventFindByNameAndType_AnyType(name, type) ==
  FindOne({i \in DOMAIN events : events[i].name = name /\ ~events[i].is_deleted})

\* EventRepository.findByNameAndType
EventFindByNameAndType(name, type) ==
  FindOne({i \in DOMAIN events :
             /\ events[i].name = name
             /\ events[i].type = type
             /\ ~events[i].is_deleted})

\* A lookup that finds no row.
PropertyFindByNameAndType_Miss(name, type) == 0

\* PropertyRepository.findByNameAndType
PropertyFindByNameAndType(name, type) ==
  FindOne({i \in DOMAIN properties :
             /\ properties[i].name = name
             /\ properties[i].type = type
             /\ ~properties[i].is_deleted})

\* A lookup that finds no plan.
TrackingPlanFindByName_Miss(name) == 0

\* TrackingPlanRepository.findByName
TrackingPlanFindByName(name) ==
  FindOne({i \in DOMAIN plans : plans[i].name = name /\ ~plans[i].is_deleted})

\* A lookup by id that also returns soft-deleted plans.
TrackingPlanFindById_AnyRow(id) == FindOne({i \in DOMAIN plans : i = id})

\* BaseRepository.findById on each table
TrackingPlanFindById(id) ==
  FindOne({i \in DOMAIN plans : i = id /\ ~plans[i].is_deleted})

EventFindById(id) ==
  FindOne({i \in DOMAIN events : i = id /\ ~events[i].is_deleted})

PropertyFindById(id) ==
  FindOne({i \in DOMAIN properties : i = id /\ ~properties[i].is_deleted})

\* The unique indexes.  None has a WHERE clause: soft-deleted rows count.
EventIndexViolated(name, type) ==
  \E i \in DOMAIN events : events[i].name = name /\ events[i].type = type

PropertyIndexViolated(name, type) ==
  \E i \in DOMAIN properties :
     properties[i].name = name /\ properties[i].type = type

\* An index on the plan name that leaves soft-deleted rows out.
TrackingPlanIndexViolated_Live(name) ==
  \E i \in DOMAIN plans : plans[i].name = name /\ ~plans[i].is_deleted

\* The unique index on tracking_plans(name) covers every row.
TrackingPlanIndexViolated(name) ==
  \E i \in DOMAIN plans : plans[i].name = name

\* The rows an insert writes (is_deleted defaults to false).
EventRow(data) ==
  [name |-> data.name, type |-> data.type, description |-> data.description,
   is_deleted |-> FALSE]

PropertyRow(data) ==
  [name |-> data.name, type |-> data.type, description |-> data.description,
   validation_rules |-> Jsonb(data.validation_rules),
   is_deleted |-> FALSE]

TrackingPlanRow(data) ==
  [name |-> data.name, description |-> data.description,
   is_deleted |-> FALSE]

\* ------------------------------------------------- controller, errorHandler
\* middleware/errorHandler
errorHandler(error) ==
  IF error.cls \in AppErrorClasses
  THEN [status |-> error.statusCode, code |-> error.cls, message |-> error.message]
  ELSE IF error.cls = "QueryFailedError"
  THEN [status |-> 400, code |-> "DATABASE_ERROR", message |-> <<"Database query failed">>]
  ELSE IF Includes(error.message, "duplicate key value")
  THEN [status |-> 409, code |-> "UNIQUE_CONSTRAINT_ERROR",
        message |-> <<"Resource already exists">>]
  ELSE [status |-> 500, code |-> "INTERNAL_SERVER_ERROR",
        message |-> <<"An unexpected error occurred">>]

Ok(status) == [status |-> status, code |-> "", message |-> <<>>]

\* The create handlers of the three controllers.
ControllerCreate(res) ==
  IF res.success THEN Ok(201) ELSE errorHandler(AppError(res.message, 400))

\* The update handlers.
ControllerUpdate(res) ==
  IF res.success THEN Ok(200)
  ELSE errorHandler(AppError(res.message,
                             IF Includes(res.message, "not found") THEN 404 ELSE 400))

\* The delete handlers.
\* TrackingPlanController.getTrackingPlanById
ControllerGet(res) ==
  IF res.success THEN Ok(200) ELSE errorHandler(AppError(res.message, 404))

ControllerDelete(res) ==
  IF res.success THEN Ok(204)
  ELSE errorHandler(AppError(res.message,
                             IF Includes(res.message, "not found") THEN 404 ELSE 400))

\* The ServiceResponse objects.
Success(id, evs) ==
  [success |-> TRUE, thrown |-> FALSE, code |-> "", message |-> <<>>,
   id |-> id, events |-> evs]

Failure(code, error) ==
  [success |-> FALSE, thrown |-> FALSE, code |-> code, message |-> error.message,
   id |-> 0, events |-> <<>>]

\* No ServiceResponse: the service method rejected with error.
Thrown(error) ==
  [success |-> FALSE, thrown |-> TRUE, code |-> error.cls, message |-> error.message,
   id |-> 0, events |-> <<>>]

\* ------------------------------------------------------ identity resolvers
\* findOrCreateEvent without the lookup's result: always the create path.
findOrCreateEvent_NoReuse(data) == [do |-> "create", id |-> 0, error |-> NoError]

\* The decision of EventService.findOrCreateEvent after its lookup.
findOrCreateEvent(data) ==
  LET existingEvent == EventFindByNameAndType(data.name, data.type)
  IN IF existingEvent # 0
     THEN IF events[existingEvent].description # data.description
          THEN [do |-> "throw", id |-> 0,
                error |-> ConflictError(<<"Event", data.name, "of type", data.type,
                                          "already exists with different description">>)]
          ELSE [do |-> "return", id |-> existingEvent, error |-> NoError]
     ELSE [do |-> "create", id |-> 0, error |-> NoError]

\* PropertyService.validatePropertyRules: the error it throws, or NoError.
validatePropertyRules(rules, type) ==
  LET min == Get(rules, "min")
      max == Get(rules, "max")
      regex == Get(rules, "regex")
      enum == Get(rules, "enum")
  IN IF type = "string" /\ Truthy(min) /\ min.t # "number"
     THEN ValidationError(<<"String property min length must be a number">>)
     ELSE IF type = "string" /\ Truthy(max) /\ max.t # "number"
     THEN ValidationError(<<"String property max length must be a number">>)
     ELSE IF type = "string" /\ Truthy(regex) /\ regex.t # "string"
     THEN ValidationError(<<"String property regex must be a string">>)
     ELSE IF type = "number" /\ Truthy(min) /\ min.t # "number"
     THEN ValidationError(<<"Number property min value must be a number">>)
     ELSE IF type = "number" /\ Truthy(max) /\ max.t # "number"
     THEN ValidationError(<<"Number property max value must be a number">>)
     ELSE IF type = "boolean" /\ Truthy(enum) /\ enum.t # "array"
     THEN ValidationError(<<"Boolean property enum must be an array">>)
     ELSE IF Truthy(regex) /\ ~RegExpCompiles(regex)
     THEN ValidationError(<<"Invalid regex pattern in validation rules">>)
     ELSE NoError

\* The rule set as it is, without the || null.
OrNull_Raw(r) == r

\* validation_rules || null
OrNull(r) == IF TruthyRules(r) THEN r ELSE RNull

\* The comparison of the stored and the incoming rule set.
RulesDiffer(existing, incoming) ==
  JSONstringify(OrNull(existing)) # JSONstringify(OrNull(incoming))

\* findOrCreateProperty with the two comparisons in the other order.
findOrCreateProperty_RulesFirst(data) ==
  LET existingProperty == PropertyFindByNameAndType(data.name, data.type)
      invalid == IF TruthyRules(data.validation_rules)
                 THEN validatePropertyRules(data.validation_rules, data.type)
                 ELSE NoError
  IN IF existingProperty # 0
     THEN IF RulesDiffer(properties[existingProperty].validation_rules,
                         data.validation_rules)
          THEN [do |-> "throw", id |-> 0,
                error |-> ConflictError(<<"Property", data.name, "of type", data.type,
                                          "already exists with different validation rules">>)]
          ELSE IF properties[existingProperty].description # data.description
          THEN [do |-> "throw", id |-> 0,
                error |-> ConflictError(<<"Property", data.name, "of type", data.type,
                                          "already exists with different description">>)]
          ELSE [do |-> "return", id |-> existingProperty, error |-> NoError]
     ELSE IF invalid # NoError
          THEN [do |-> "throw", id |-> 0, error |-> invalid]
          ELSE [do |-> "create", id |-> 0, error |-> NoError]

\* The decision of PropertyService.findOrCreateProperty after its lookup.
findOrCreateProperty(data) ==
  LET existingProperty == PropertyFindByNameAndType(data.name, data.type)
      invalid == IF TruthyRules(data.validation_rules)
                 THEN validatePropertyRules(data.validation_rules, data.type)
                 ELSE NoError
  IN IF existingProperty # 0
     THEN IF properties[existingProperty].description # data.description
          THEN [do |-> "throw", id |-> 0,
                error |-> ConflictError(<<"Property", data.name, "of type", data.type,
                                          "already exists with different description">>)]
          ELSE IF RulesDiffer(properties[existingProperty].validation_rules,
                              data.validation_rules)
          THEN [do |-> "throw", id |-> 0,
                error |-> ConflictError(<<"Property", data.name, "of type", data.type,
                                          "already exists with different validation rules">>)]
          ELSE [do |-> "return", id |-> existingProperty, error |-> NoError]
     ELSE IF invalid # NoError
          THEN [do |-> "throw", id |-> 0, error |-> invalid]
          ELSE [do |-> "create", id |-> 0, error |-> NoError]

\* ------------------------------------------------------- request plumbing
\* A process can take a new request when it serves none.
CanStart(p) ==
  /\ p \in ActiveProcs(profile)
  /\ pc[p] \in {"idle", "done"}
  /\ nops < OpsLimit(profile)

\* The request gets the next number; the process holds no answer until
\* the request is served.
Start(p, kind, id, data) ==
  /\ nops' = nops + 1
  /\ req' = [req EXCEPT ![p] = [kind |-> kind, op |-> nops + 1, id |-> id, data |-> data]]
  /\ result' = [result EXCEPT ![p] = NoResult]
  /\ response' = [response EXCEPT ![p] = NoResponse]

\* The service method returns res and the controller answers resp; the
\* request and the locals of the method are gone.
Finish(p, res, resp) ==
  /\ pc' = [pc EXCEPT ![p] = "done"]
  /\ req' = [req EXCEPT ![p] = NoReq]
  /\ loc' = [loc EXCEPT ![p] = NoLoc]
  /\ result' = [result EXCEPT ![p] = res]
  /\ response' = [response EXCEPT ![p] = resp]

\* ------------------------------------------------- EventService.createEvent
CreateEvent_Find(p) ==
  /\ CanStart(p)
  /\ \E data \in CreateEventDtos(profile) :
       IF EventFindByNameAndType(data.name, data.type) # 0
       THEN LET res == Failure("CREATE_EVENT_ERROR",
                               UniqueConstraintError("Event", <<data.name, ":", data.type>>))
            IN /\ nops' = nops + 1
               /\ Finish(p, res, ControllerCreate(res))
       ELSE /\ Start(p, "createEvent", 0, data)
            /\ pc' = [pc EXCEPT ![p] = "ce_create"]
            /\ loc' = [loc EXCEPT ![p] = NoLoc]
  /\ tx' = [tx EXCEPT ![p] = NoTx]
  /\ UNCHANGED <<profile, store>>

\* The insert on a table events that has no unique index.
EventInsert_NoIndex(data) ==
  [error |-> NoError, rows |-> Append(events, EventRow(data))]

\* BaseRepository.create on table events: the insert, or the error of
\* the unique index on (name, type).
EventInsert(data) ==
  IF EventIndexViolated(data.name, data.type)
  THEN [error |-> DuplicateKeyError("events(name,type)"), rows |-> events]
  ELSE [error |-> NoError, rows |-> Append(events, EventRow(data))]

CreateEvent_Insert(p) ==
  /\ pc[p] = "ce_create"
  /\ LET ins == EventInsert(req[p].data)
         res == IF ins.error # NoError
                THEN Failure("CREATE_EVENT_ERROR", ins.error)
                ELSE Success(Len(ins.rows), <<>>)
     IN /\ events' = ins.rows
        /\ Finish(p, res, ControllerCreate(res))
  /\ UNCHANGED <<profile, plans, properties, tpe, ep, nops, tx>>

\* ------------------------------------------- PropertyService.createProperty
CreateProperty_Find(p) ==
  /\ CanStart(p)
  /\ \E data \in CreatePropertyDtos(profile) :
       LET invalid == IF TruthyRules(data.validation_rules)
                      THEN validatePropertyRules(data.validation_rules, data.type)
                      ELSE NoError
           error == IF PropertyFindByNameAndType(data.name, data.type) # 0
                    THEN UniqueConstraintError("Property", <<data.name, ":", data.type>>)
                    ELSE invalid
           res == Failure("CREATE_PROPERTY_ERROR", error)
       IN IF error # NoError
          THEN /\ nops' = nops + 1
               /\ Finish(p, res, ControllerCreate(res))
          ELSE /\ Start(p, "createProperty", 0, data)
               /\ pc' = [pc EXCEPT ![p] = "cp_create"]
               /\ loc' = [loc EXCEPT ![p] = NoLoc]
  /\ tx' = [tx EXCEPT ![p] = NoTx]
  /\ UNCHANGED <<profile, store>>

\* BaseRepository.create on table properties.
PropertyInsert(data) ==
  IF PropertyIndexViolated(data.name, data.type)
  THEN [error |-> DuplicateKeyError("properties(name,type)"), rows |-> properties]
  ELSE [error |-> NoError, rows |-> Append(properties, PropertyRow(data))]

CreateProperty_Insert(p) ==
  /\ pc[p] = "cp_create"
  /\ LET ins == PropertyInsert(req[p].data)
         res == IF ins.error # NoError
                THEN Failure("CREATE_PROPERTY_ERROR", ins.error)
                ELSE Success(Len(ins.rows), <<>>)
     IN /\ properties' = ins.rows
        /\ Finish(p, res, ControllerCreate(res))
  /\ UNCHANGED <<profile, plans, events, tpe, ep, nops, tx>>

\* --------------------------------------------------------- the soft deletes
\* BaseRepository.softDelete: is_deleted := true on the row with that id.
SoftDelete(rows, id) ==
  [k \in DOMAIN rows |-> IF k = id THEN [rows[k] EXCEPT !.is_deleted = TRUE] ELSE rows[k]]

\* An id a request can name: a row of the table, or one past its end.
Ids(rows) == 1..(Len(rows) + 1)

\* EventService.deleteEvent
DeleteEvent(p) ==
  /\ CanStart(p)
  /\ \E id \in Ids(events) :
       LET res == IF EventFindById(id) = 0
                  THEN Failure("DELETE_EVENT_ERROR", NotFoundError("Event"))
                  ELSE Success(0, <<>>)
       IN /\ events' = IF res.success THEN SoftDelete(events, id) ELSE events
          /\ Finish(p, res, ControllerDelete(res))
  /\ nops' = nops + 1
  /\ tx' = [tx EXCEPT ![p] = NoTx]
  /\ UNCHANGED <<profile, plans, properties, tpe, ep>>

\* PropertyService.deleteProperty
DeleteProperty(p) ==
  /\ CanStart(p)
  /\ \E id \in Ids(properties) :
       LET res == IF PropertyFindById(id) = 0
                  THEN Failure("DELETE_PROPERTY_ERROR", NotFoundError("Property"))
                  ELSE Success(0, <<>>)
       IN /\ properties' = IF res.success THEN SoftDelete(properties, id) ELSE properties
          /\ Finish(p, res, ControllerDelete(res))
  /\ nops' = nops + 1
  /\ tx' = [tx EXCEPT ![p] = NoTx]
  /\ UNCHANGED <<profile, plans, events, tpe, ep>>

\* TrackingPlanService.deleteTrackingPlan
DeleteTrackingPlan(p) ==
  /\ CanStart(p)
  /\ \E id \in Ids(plans) :
       LET res == IF TrackingPlanFindById(id) = 0
                  THEN Failure("DELETE_TRACKING_PLAN_ERROR", NotFoundError("TrackingPlan"))
                  ELSE Success(0, <<>>)
       IN /\ plans' = IF res.success THEN SoftDelete(plans, id) ELSE plans
          /\ Finish(p, res, ControllerDelete(res))
  /\ nops' = nops + 1
  /\ tx' = [tx EXCEPT ![p] = NoTx]
  /\ UNCHANGED <<profile, events, properties, tpe, ep>>

\* ----------------------------------------- the queryRunner's transaction
\* The plan a tracking-plan request writes links for.
PlanId(p) == loc[p].trackingPlan

\* tracking_plan_events without its unique index.
TpeIndexViolated_NoIndex(p, planId, eventId) == FALSE

\* The unique index on tracking_plan_events (tracking_plan_id, event_id),
\* as the transaction of p sees it: committed rows and its own pending rows,
\* soft-deleted ones included.
TpeIndexViolated(p, planId, eventId) ==
  \E r \in tpe \cup tx[p].tpe :
     r.tracking_plan_id = planId /\ r.event_id = eventId

\* The unique index on event_properties (tracking_plan_event_id, property_id).
EpIndexViolated(p, tpeId, propertyId) ==
  \E r \in ep \cup tx[p].ep :
     r.tracking_plan_event_id = tpeId /\ r.property_id = propertyId

\* An insert waits while another open transaction holds the same key.
TpeInsertWaits(p, planId, eventId) ==
  \E q \in Procs \ {p} :
     /\ tx[q].state = "active"
     /\ \E r \in tx[q].tpe : r.tracking_plan_id = planId /\ r.event_id = eventId

\* An update waits while another open transaction has updated one of its rows.
TpeUpdateWaits(p, ids) ==
  \E q \in Procs \ {p} : tx[q].state = "active" /\ tx[q].del \cap ids # {}

\* save on a repository of AppDataSource: the row is committed at once.
TpeSave_Autocommit(t, row) == [table |-> tpe \cup {row}, pending |-> t.tpe]

\* save on the repository of queryRunner.manager: the row is pending in the
\* transaction t, the committed table is as it was.
TpeSave(t, row) == [table |-> tpe, pending |-> t.tpe \cup {row}]

EpSave(t, row) == [table |-> ep, pending |-> t.ep \cup {row}]

\* commitTransaction: the pending link writes reach the tables.
CommitTpe(t) ==
  {IF r.id \in t.del THEN [r EXCEPT !.is_deleted = TRUE] ELSE r : r \in tpe} \cup t.tpe

\* A commit that stores required once for each property, for all its links.
CommitEp_SharedFlag(t) ==
  {IF \E n \in t.ep : n.property_id = r.property_id
   THEN [r EXCEPT !.required =
           (CHOOSE n \in t.ep : n.property_id = r.property_id).required]
   ELSE r : r \in ep} \cup t.ep

CommitEp(t) == ep \cup t.ep

Committed(t) == [NoTx EXCEPT !.state = "committed", !.op = t.op]

\* rollbackTransaction: the pending link writes are dropped.
RolledBack(t) == [NoTx EXCEPT !.state = "rolledback", !.op = t.op]

\* --------------------------------- TrackingPlanService.createTrackingPlan
Throw(p, error) ==
  /\ loc' = [loc EXCEPT ![p].error = error]
  /\ pc' = [pc EXCEPT ![p] = "catch"]

\* startTransaction and the plan-name check.
Ctp_Begin(p) ==
  /\ CanStart(p)
  /\ \E data \in CreateTrackingPlanDtos(profile) :
       /\ Start(p, "createTrackingPlan", 0, data)
       /\ IF TrackingPlanFindByName(data.name) # 0
          THEN /\ loc' = [loc EXCEPT ![p] =
                            [NewLoc EXCEPT !.error = UniqueConstraintError("TrackingPlan", <<data.name>>)]]
               /\ pc' = [pc EXCEPT ![p] = "catch"]
          ELSE /\ loc' = [loc EXCEPT ![p] = NewLoc]
               /\ pc' = [pc EXCEPT ![p] = "ctp_createPlan"]
  /\ tx' = [tx EXCEPT ![p] = [NoTx EXCEPT !.state = "active", !.op = nops + 1]]
  /\ UNCHANGED <<profile, store>>

\* BaseRepository.create on table tracking_plans.
TrackingPlanInsert(data) ==
  IF TrackingPlanIndexViolated(data.name)
  THEN [error |-> DuplicateKeyError("tracking_plans(name)"), rows |-> plans]
  ELSE [error |-> NoError, rows |-> Append(plans, TrackingPlanRow(data))]

\* trackingPlanRepository.create(trackingPlanData)
Ctp_CreatePlan(p) ==
  /\ pc[p] = "ctp_createPlan"
  /\ LET ins == TrackingPlanInsert(req[p].data)
     IN /\ plans' = ins.rows
        /\ IF ins.error # NoError
           THEN Throw(p, ins.error)
           ELSE /\ loc' = [loc EXCEPT ![p].trackingPlan = Len(ins.rows), ![p].i = 1]
                /\ pc' = [pc EXCEPT ![p] = "event_find"]
  /\ UNCHANGED <<profile, events, properties, tpe, ep, nops, req, tx,
                 result, response>>

\* The event loop head with a resolver whose lookup also sees soft-deleted
\* rows.
Tp_FindEvent_SeesDeleted(p) ==
  /\ pc[p] = "event_find"
  /\ loc[p].i <= MaxEvents
  /\ \E eventData \in TrackingPlanEventDtos(profile) :
       LET existing == FindOne({i \in DOMAIN events :
                                  /\ events[i].name = eventData.name
                                  /\ events[i].type = eventData.type})
           conflict == ConflictError(<<"Event", eventData.name, "of type", eventData.type,
                                       "already exists with different description">>)
       IN /\ loc' = [loc EXCEPT
                       ![p].eventData = eventData,
                       ![p].event = existing,
                       ![p].error =
                          IF existing # 0
                             /\ events[existing].description # eventData.description
                          THEN conflict ELSE NoError]
          /\ pc' = [pc EXCEPT ![p] =
                      IF existing = 0 THEN "event_create"
                      ELSE IF events[existing].description # eventData.description
                      THEN "catch" ELSE "tpe_save"]
  /\ UNCHANGED <<profile, store, nops, req, tx, result, response>>

\* The next eventData of data.events, and eventService.findOrCreateEvent up
\* to its lookup.
Tp_FindEvent(p) ==
  /\ pc[p] = "event_find"
  /\ loc[p].i <= MaxEvents
  /\ \E eventData \in TrackingPlanEventDtos(profile) :
       LET found == findOrCreateEvent(eventData)
       IN /\ loc' = [loc EXCEPT ![p].eventData = eventData,
                                ![p].event = found.id,
                                ![p].error = found.error]
          /\ pc' = [pc EXCEPT ![p] =
                      IF found.do = "throw" THEN "catch"
                      ELSE IF found.do = "return" THEN "tpe_save"
                      ELSE "event_create"]
  /\ UNCHANGED <<profile, store, nops, req, tx, result, response>>

\* eventService.findOrCreateEvent, its eventRepository.create.
Tp_CreateEvent(p) ==
  /\ pc[p] = "event_create"
  /\ LET ins == EventInsert(loc[p].eventData)
     IN /\ events' = ins.rows
        /\ IF ins.error # NoError
           THEN Throw(p, ins.error)
           ELSE /\ loc' = [loc EXCEPT ![p].event = Len(ins.rows)]
                /\ pc' = [pc EXCEPT ![p] = "tpe_save"]
  /\ UNCHANGED <<profile, plans, properties, tpe, ep, nops, req, tx,
                 result, response>>

\* trackingPlanEventRepo.save(trackingPlanEvent), inside the transaction.
Tp_SaveTpe(p) ==
  /\ pc[p] = "tpe_save"
  /\ ~TpeInsertWaits(p, PlanId(p), loc[p].event)
  /\ LET row == [id |-> <<tx[p].op, loc[p].i>>,
                 tracking_plan_id |-> PlanId(p),
                 event_id |-> loc[p].event,
                 additional_properties |-> loc[p].eventData.additionalProperties,
                 is_deleted |-> FALSE]
     IN IF TpeIndexViolated(p, PlanId(p), loc[p].event)
        THEN /\ Throw(p, DuplicateKeyError("tracking_plan_events(tracking_plan_id,event_id)"))
             /\ UNCHANGED <<tx, tpe>>
        ELSE /\ tx' = [tx EXCEPT ![p].tpe = TpeSave(tx[p], row).pending]
             /\ tpe' = TpeSave(tx[p], row).table
             /\ loc' = [loc EXCEPT ![p].tpe = row.id, ![p].j = 1,
                                   ![p].createdProperties = <<>>]
             /\ pc' = [pc EXCEPT ![p] = "prop_find"]
  /\ UNCHANGED <<profile, plans, events, properties, ep, nops, req, result, response>>

\* The property loop head with a resolver that validates the candidate's
\* rules before its lookup.
Tp_FindProperty_ValidatesFirst(p) ==
  /\ pc[p] = "prop_find"
  /\ loc[p].j <= MaxProps
  /\ \E propertyData \in EventPropertyDtos(profile) :
       LET invalid == IF TruthyRules(propertyData.validation_rules)
                      THEN validatePropertyRules(propertyData.validation_rules,
                                                 propertyData.type)
                      ELSE NoError
           found == IF invalid # NoError
                    THEN [do |-> "throw", id |-> 0, error |-> invalid]
                    ELSE findOrCreateProperty(propertyData)
       IN /\ loc' = [loc EXCEPT ![p].propertyData = propertyData,
                                ![p].property = found.id,
                                ![p].error = found.error]
          /\ pc' = [pc EXCEPT ![p] =
                      IF found.do = "throw" THEN "catch"
                      ELSE IF found.do = "return" THEN "ep_save"
                      ELSE "prop_create"]
  /\ UNCHANGED <<profile, store, nops, req, tx, result, response>>

\* The next propertyData of eventData.properties, and
\* propertyService.findOrCreateProperty up to its lookup and validation.
Tp_FindProperty(p) ==
  /\ pc[p] = "prop_find"
  /\ loc[p].j <= MaxProps
  /\ \E propertyData \in EventPropertyDtos(profile) :
       LET found == findOrCreateProperty(propertyData)
       IN /\ loc' = [loc EXCEPT ![p].propertyData = propertyData,
                                ![p].property = found.id,
                                ![p].error = found.error]
          /\ pc' = [pc EXCEPT ![p] =
                      IF found.do = "throw" THEN "catch"
                      ELSE IF found.do = "return" THEN "ep_save"
                      ELSE "prop_create"]
  /\ UNCHANGED <<profile, store, nops, req, tx, result, response>>

\* propertyService.findOrCreateProperty, its propertyRepository.create.
Tp_CreateProperty(p) ==
  /\ pc[p] = "prop_create"
  /\ LET ins == PropertyInsert(loc[p].propertyData)
     IN /\ properties' = ins.rows
        /\ IF ins.error # NoError
           THEN Throw(p, ins.error)
           ELSE /\ loc' = [loc EXCEPT ![p].property = Len(ins.rows)]
                /\ pc' = [pc EXCEPT ![p] = "ep_save"]
  /\ UNCHANGED <<profile, plans, events, tpe, ep, nops, req, tx,
                 result, response>>

\* The save of the Event-Property link with required left to a default.
Tp_SaveEp_RequiredByDefault(p) ==
  /\ pc[p] = "ep_save"
  /\ LET row == [id |-> <<tx[p].op, loc[p].i, loc[p].j>>,
                 tracking_plan_event_id |-> loc[p].tpe,
                 property_id |-> loc[p].property,
                 required |-> TRUE,
                 is_deleted |-> FALSE]
     IN IF EpIndexViolated(p, loc[p].tpe, loc[p].property)
        THEN /\ Throw(p, DuplicateKeyError("event_properties(tracking_plan_event_id,property_id)"))
             /\ UNCHANGED <<tx, ep>>
        ELSE /\ tx' = [tx EXCEPT ![p].ep = EpSave(tx[p], row).pending]
             /\ ep' = EpSave(tx[p], row).table
             /\ loc' = [loc EXCEPT
                          ![p].j = @ + 1,
                          ![p].createdProperties =
                             IF req[p].kind = "createTrackingPlan"
                             THEN Append(@, [id |-> loc[p].property,
                                             required |-> loc[p].propertyData.required])
                             ELSE @]
             /\ pc' = [pc EXCEPT ![p] = "prop_find"]
  /\ UNCHANGED <<profile, plans, events, properties, tpe, nops, req, result, response>>

\* eventPropertyRepo.save(eventProperty), inside the transaction, and
\* createdProperties.push.
Tp_SaveEp(p) ==
  /\ pc[p] = "ep_save"
  /\ LET row == [id |-> <<tx[p].op, loc[p].i, loc[p].j>>,
                 tracking_plan_event_id |-> loc[p].tpe,
                 property_id |-> loc[p].property,
                 required |-> loc[p].propertyData.required,
                 is_deleted |-> FALSE]
     IN IF EpIndexViolated(p, loc[p].tpe, loc[p].property)
        THEN /\ Throw(p, DuplicateKeyError("event_properties(tracking_plan_event_id,property_id)"))
             /\ UNCHANGED <<tx, ep>>
        ELSE /\ tx' = [tx EXCEPT ![p].ep = EpSave(tx[p], row).pending]
             /\ ep' = EpSave(tx[p], row).table
             /\ loc' = [loc EXCEPT
                          ![p].j = @ + 1,
                          ![p].createdProperties =
                             IF req[p].kind = "createTrackingPlan"
                             THEN Append(@, [id |-> loc[p].property,
                                             required |-> loc[p].propertyData.required])
                             ELSE @]
             /\ pc' = [pc EXCEPT ![p] = "prop_find"]
  /\ UNCHANGED <<profile, plans, events, properties, tpe, nops, req, result, response>>

\* eventData.properties is exhausted: createdEvents.push and the step to
\* the next event of the list.
Tp_NextEvent(p) ==
  /\ pc[p] = "prop_find"
  /\ loc' = [loc EXCEPT
               ![p].i = @ + 1,
               ![p].createdEvents =
                  IF req[p].kind = "createTrackingPlan"
                  THEN Append(@, [id |-> loc[p].event,
                                  additionalProperties |-> loc[p].eventData.additionalProperties,
                                  properties |-> loc[p].createdProperties])
                  ELSE @]
  /\ pc' = [pc EXCEPT ![p] = "event_find"]
  /\ UNCHANGED <<profile, store, nops, req, tx, result, response>>

\* data.events is exhausted: queryRunner.commitTransaction and the success
\* response of create.
Ctp_Commit(p) ==
  /\ pc[p] = "event_find"
  /\ req[p].kind = "createTrackingPlan"
  /\ tpe' = CommitTpe(tx[p])
  /\ ep' = CommitEp(tx[p])
  /\ tx' = [tx EXCEPT ![p] = Committed(tx[p])]
  /\ LET res == Success(loc[p].trackingPlan, loc[p].createdEvents)
     IN Finish(p, res, ControllerCreate(res))
  /\ UNCHANGED <<profile, plans, events, properties, nops>>

\* The code of the failure result of a tracking-plan request.
ErrorCode(kind) ==
  IF kind = "createTrackingPlan" THEN "CREATE_TRACKING_PLAN_ERROR"
  ELSE "UPDATE_TRACKING_PLAN_ERROR"

\* The controller of a tracking-plan request.
Controller(kind, res) ==
  IF kind = "createTrackingPlan" THEN ControllerCreate(res) ELSE ControllerUpdate(res)

\* The catch blocks of createTrackingPlan and updateTrackingPlan:
\* rollbackTransaction, then the failure result.  Without an open
\* transaction rollbackTransaction throws, and the method rejects.
Tp_Catch(p) ==
  /\ pc[p] = "catch"
  /\ IF tx[p].state = "active"
     THEN /\ tx' = [tx EXCEPT ![p] = RolledBack(tx[p])]
          /\ LET res == Failure(ErrorCode(req[p].kind), loc[p].error)
             IN Finish(p, res, Controller(req[p].kind, res))
     ELSE /\ Finish(p, Thrown(TransactionNotStartedError),
                    errorHandler(TransactionNotStartedError))
          /\ UNCHANGED tx
  /\ UNCHANGED <<profile, store, nops>>

\* --------------------------------- TrackingPlanService.updateTrackingPlan
\* Where control goes once the name check has passed.
UpdatePc(data) ==
  IF data.name # "" \/ data.description # "" THEN "utp_update" ELSE "utp_links"

\* startTransaction, findById and the decision whether to check the name.
Utp_Begin(p) ==
  /\ CanStart(p)
  /\ \E id \in Ids(plans), data \in UpdateTrackingPlanDtos(profile) :
       /\ Start(p, "updateTrackingPlan", id, data)
       /\ IF TrackingPlanFindById(id) = 0
          THEN /\ loc' = [loc EXCEPT ![p] = [NewLoc EXCEPT !.error = NotFoundError("TrackingPlan")]]
               /\ pc' = [pc EXCEPT ![p] = "catch"]
          ELSE /\ loc' = [loc EXCEPT ![p] = [NewLoc EXCEPT !.trackingPlan = id, !.i = 1]]
               /\ pc' = [pc EXCEPT ![p] =
                           IF data.name # "" /\ data.name # plans[id].name
                           THEN "utp_checkName" ELSE UpdatePc(data)]
  /\ tx' = [tx EXCEPT ![p] = [NoTx EXCEPT !.state = "active", !.op = nops + 1]]
  /\ UNCHANGED <<profile, store>>

\* A lookup that finds no other plan.
TrackingPlanFindByNameExcludingId_Miss(name, excludeId) == 0

\* TrackingPlanRepository.findByNameExcludingId
TrackingPlanFindByNameExcludingId(name, excludeId) ==
  FindOne({i \in DOMAIN plans :
             plans[i].name = name /\ ~plans[i].is_deleted /\ i # excludeId})

Utp_CheckName(p) ==
  /\ pc[p] = "utp_checkName"
  /\ IF TrackingPlanFindByNameExcludingId(req[p].data.name, req[p].id) # 0
     THEN Throw(p, UniqueConstraintError("TrackingPlan", <<req[p].data.name>>))
     ELSE /\ pc' = [pc EXCEPT ![p] = UpdatePc(req[p].data)]
          /\ UNCHANGED loc
  /\ UNCHANGED <<profile, store, nops, req, tx, result, response>>

\* BaseRepository.update on table tracking_plans: the row with that id gets
\* the supplied fields, or the unique index on name rejects the statement.
TrackingPlanUpdate(id, data) ==
  IF data.name # "" /\ \E i \in DOMAIN plans : i # id /\ plans[i].name = data.name
  THEN [error |-> DuplicateKeyError("tracking_plans(name)"), rows |-> plans]
  ELSE [error |-> NoError,
        rows |-> [i \in DOMAIN plans |->
                    IF i # id THEN plans[i]
                    ELSE [plans[i] EXCEPT
                            !.name = IF data.name # "" THEN data.name ELSE @,
                            !.description = IF data.description # ""
                                            THEN data.description ELSE @]]]

Utp_UpdatePlan(p) ==
  /\ pc[p] = "utp_update"
  /\ LET upd == TrackingPlanUpdate(req[p].id, req[p].data)
     IN /\ plans' = upd.rows
        /\ IF upd.error # NoError
           THEN Throw(p, upd.error)
           ELSE /\ pc' = [pc EXCEPT ![p] = "utp_links"]
                /\ UNCHANGED loc
  /\ UNCHANGED <<profile, events, properties, tpe, ep, nops, req, tx,
                 result, response>>

\* data.events is present, and the plan's links are left as they are.
Utp_SoftDeleteLinks_KeepsLinks(p) ==
  /\ pc[p] = "utp_links"
  /\ pc' = [pc EXCEPT ![p] = "event_find"]
  /\ UNCHANGED <<profile, store, nops, req, loc, tx, result, response>>

\* data.events is present:
\* trackingPlanEventRepo.update({tracking_plan_id: id}, {is_deleted: true}),
\* inside the transaction.
Utp_SoftDeleteLinks(p) ==
  /\ pc[p] = "utp_links"
  /\ LET ids == {r.id : r \in {x \in tpe : x.tracking_plan_id = req[p].id}}
     IN /\ ~TpeUpdateWaits(p, ids)
        /\ tx' = [tx EXCEPT ![p].del = @ \cup ids]
  /\ pc' = [pc EXCEPT ![p] = "event_find"]
  /\ UNCHANGED <<profile, store, nops, req, loc, result, response>>

\* data.events is absent or exhausted: queryRunner.commitTransaction.
Utp_Commit(p) ==
  /\ pc[p] \in {"utp_links", "event_find"}
  /\ req[p].kind = "updateTrackingPlan"
  /\ tpe' = CommitTpe(tx[p])
  /\ ep' = CommitEp(tx[p])
  /\ tx' = [tx EXCEPT ![p] = Committed(tx[p])]
  /\ pc' = [pc EXCEPT ![p] = "utp_reread"]
  /\ UNCHANGED <<profile, plans, events, properties, nops, req, loc, result, response>>

\* The rows of S as a sequence, in the order of their ids' last component.
RECURSIVE InOrder(_)
InOrder(S) ==
  IF S = {} THEN <<>>
  ELSE LET first == CHOOSE r \in S :
                      \A q \in S : r.id[Len(r.id)] <= q.id[Len(q.id)]
       IN <<first>> \o InOrder(S \ {first})

\* TrackingPlanRepository.findWithEvents and mapToResponseDto: the events
\* and properties of the plan's links that are not soft-deleted.
mapToResponseDto(id) ==
  LET links == {r \in tpe : r.tracking_plan_id = id /\ ~r.is_deleted}
      props(r) == InOrder({e \in ep : e.tracking_plan_event_id = r.id /\ ~e.is_deleted})
      entry(r) ==
        [id |-> r.event_id, additionalProperties |-> r.additional_properties,
         properties |-> [k \in DOMAIN props(r) |->
                           [id |-> props(r)[k].property_id,
                            required |-> props(r)[k].required]]]
  IN [k \in DOMAIN InOrder(links) |-> entry(InOrder(links)[k])]

\* findWithEvents(id) after the commit, and the success response of update.
Utp_Reread(p) ==
  /\ pc[p] = "utp_reread"
  /\ IF TrackingPlanFindById(req[p].id) = 0
     THEN /\ Throw(p, TypeError)
          /\ UNCHANGED <<req, result, response>>
     ELSE LET res == Success(req[p].id, mapToResponseDto(req[p].id))
          IN Finish(p, res, ControllerUpdate(res))
  /\ UNCHANGED <<profile, store, nops, tx>>

\* TrackingPlanService.getTrackingPlanById: a read, in one statement.
GetTrackingPlanById(p) ==
  /\ CanStart(p)
  /\ \E id \in Ids(plans) :
       LET res == IF TrackingPlanFindById(id) = 0
                  THEN Failure("GET_TRACKING_PLAN_ERROR", NotFoundError("TrackingPlan"))
                  ELSE Success(id, mapToResponseDto(id))
       IN Finish(p, res, ControllerGet(res))
  /\ nops' = nops + 1
  /\ tx' = [tx EXCEPT ![p] = NoTx]
  /\ UNCHANGED <<profile, store>>

\* ------------------------------------------------------- storage failures
\* The awaits of a tracking-plan request whose statement can fail.
StatementPcs ==
  {"ctp_createPlan", "event_find", "event_create", "tpe_save", "prop_find",
   "prop_create", "ep_save", "utp_checkName", "utp_update", "utp_links",
   "utp_reread"}

\* Any statement of the try block can fail for a reason of the store;
\* the error reaches the catch block.
StorageFailure(p) ==
  /\ pc[p] \in StatementPcs
  /\ Throw(p, StorageError)
  /\ UNCHANGED <<profile, store, nops, req, tx, result, response>>

\* ------------------------------------------------------------ specification
Step(p) ==
  \/ CreateEvent_Find(p)
  \/ CreateEvent_Insert(p)
  \/ CreateProperty_Find(p)
  \/ CreateProperty_Insert(p)
  \/ DeleteEvent(p)
  \/ DeleteProperty(p)
  \/ DeleteTrackingPlan(p)
  \/ Ctp_Begin(p)
  \/ Ctp_CreatePlan(p)
  \/ Tp_FindEvent(p)
  \/ Tp_CreateEvent(p)
  \/ Tp_SaveTpe(p)
  \/ Tp_FindProperty(p)
  \/ Tp_CreateProperty(p)
  \/ Tp_SaveEp(p)
  \/ Tp_NextEvent(p)
  \/ Ctp_Commit(p)
  \/ Tp_Catch(p)
  \/ Utp_Begin(p)
  \/ Utp_CheckName(p)
  \/ Utp_UpdatePlan(p)
  \/ Utp_SoftDeleteLinks(p)
  \/ Utp_Commit(p)
  \/ Utp_Reread(p)
  \/ GetTrackingPlanById(p)
  \/ StorageFailure(p)

Next == \E p \in Procs : Step(p)

Spec == Init /\ [][Next]_vars

SpecConc == InitConc /\ [][Next]_vars

SpecMulti == InitMulti /\ [][Next]_vars

SpecTyped == InitTyped /\ [][Next]_vars

SpecRules == InitRules /\ [][Next]_vars

SpecPlans == InitPlans /\ [][Next]_vars

SpecFlags == InitFlags /\ [][Next]_vars

\* ------------------------------------------------------------ properties
\* The catch block of createTrackingPlan runs for process p in this step.
CreateFails(p) ==
  /\ pc[p] = "catch"
  /\ req[p].kind = "createTrackingPlan"
  /\ pc'[p] = "done"

\* C1: when createTrackingPlan returns a failure raised after the plan-name
\* check passed, the store holds no TrackingPlan row written by that
\* operation.
C1_NoPartialPlan ==
  [][\A p \in Procs :
       CreateFails(p) => loc[p].trackingPlan \notin DOMAIN plans']_vars

\* C2: when createTrackingPlan returns a failure, the Event rows and the
\* Property rows are exactly those the store held when the operation
\* started (one request at a time).
C2_EventsAndPropertiesRestored ==
  [][\A p \in Procs :
       CreateFails(p) => /\ events' = loc[p].before.events
                         /\ properties' = loc[p].before.properties]_vars

\* C3: after createTrackingPlan has returned a failure, its transaction is
\* rolled back and neither link table holds a row that the operation wrote.
C3_NoLinkSurvives ==
  \A p \in Procs :
    (pc[p] = "done" /\ result[p].code = "CREATE_TRACKING_PLAN_ERROR")
      => /\ tx[p].state = "rolledback"
         /\ \A r \in tpe : r.id[1] # tx[p].op
         /\ \A r \in ep : r.id[1] # tx[p].op

\* A create has failed at a property, which is after the Plan-Event Link of
\* the property's event was saved in the transaction.
C3_Witness ==
  \E p \in Procs :
    /\ pc[p] = "done"
    /\ result[p].code = "CREATE_TRACKING_PLAN_ERROR"
    /\ result[p].message = <<"String property min length must be a number">>
    /\ tx[p].state = "rolledback"

\* C4: no reader observes a write of a createTrackingPlan whose transaction
\* has not committed: while the transaction is open, the plan it wrote is
\* not found by findById.
C4_NoUncommittedPlanVisible ==
  \A p \in Procs :
    (tx[p].state = "active" /\ req[p].kind = "createTrackingPlan")
      => TrackingPlanFindById(loc[p].trackingPlan) = 0

\* C5: the store never holds two Event rows with the same (name, type) nor
\* two Property rows with the same (name, type).
C5_UniqueIdentity ==
  /\ \A i, j \in DOMAIN events :
       (events[i].name = events[j].name /\ events[i].type = events[j].type) => i = j
  /\ \A i, j \in DOMAIN properties :
       (properties[i].name = properties[j].name
          /\ properties[i].type = properties[j].type) => i = j

\* Two requests were in flight on the same new Event identity and the insert
\* of one of them was rejected by the unique index.
C5_Witness ==
  \E p, q \in Procs :
    /\ p # q
    /\ pc[p] = "catch"
    /\ loc[p].error = DuplicateKeyError("events(name,type)")
    /\ pc[q] = "tpe_save"
    /\ Len(events) = 1

\* A response that tells the caller of a conflict.
IsConflictReport(resp) ==
  \/ resp.status = 409
  \/ resp.code \in {"ConflictError", "UniqueConstraintError", "UNIQUE_CONSTRAINT_ERROR"}
  \/ \E k \in DOMAIN resp.message :
       resp.message[k] \in {"already exists", "Resource already exists",
                            "already exists with different description",
                            "already exists with different validation rules"}

\* C6: a createTrackingPlan whose insert of an Event or Property failed with
\* a duplicate-key error is answered with a conflict.
C6_DuplicateKeyIsConflict ==
  [][\A p \in Procs :
       (CreateFails(p)
          /\ loc[p].error \in {DuplicateKeyError("events(name,type)"),
                               DuplicateKeyError("properties(name,type)")})
         => IsConflictReport(response'[p])]_vars

\* The event resolver decides for process p in this step.
EventResolved(p) ==
  /\ pc[p] = "event_find"
  /\ pc'[p] \in {"tpe_save", "event_create", "catch"}
  /\ loc'[p].error # StorageError

\* The property resolver decides for process p in this step.
PropertyResolved(p) ==
  /\ pc[p] = "prop_find"
  /\ pc'[p] \in {"ep_save", "prop_create", "catch"}
  /\ loc'[p].error # StorageError

\* Row e of events is a non-deleted Event with the identity of d.
SameEvent(e, d) ==
  /\ ~events[e].is_deleted
  /\ events[e].name = d.name
  /\ events[e].type = d.type

\* Row e of properties is a non-deleted Property with the identity of d.
SameProperty(e, d) ==
  /\ ~properties[e].is_deleted
  /\ properties[e].name = d.name
  /\ properties[e].type = d.type

\* C7: resolving an event definition whose (name, type, description) equals
\* that of a non-deleted Event of the store inserts nothing and yields the
\* id of that row.
C7_IdempotentReuse ==
  [][\A p \in Procs : \A e \in DOMAIN events :
       (EventResolved(p) /\ SameEvent(e, loc'[p].eventData)
          /\ events[e].description = loc'[p].eventData.description)
         => /\ pc'[p] = "tpe_save"
            /\ loc'[p].event = e
            /\ events' = events]_vars

\* A createTrackingPlan has resolved its event to a row that a committed
\* link of another plan already refers to.
C7_Witness ==
  \E p \in Procs :
    /\ pc[p] = "tpe_save"
    /\ req[p].kind = "createTrackingPlan"
    /\ events[loc[p].event].description = loc[p].eventData.description
    /\ \E r \in tpe : r.event_id = loc[p].event /\ r.tracking_plan_id # loc[p].trackingPlan

\* C8: when a non-deleted Event with the candidate's (name, type) has another
\* description, createTrackingPlan fails as a whole with the Conflict that
\* names Event, the name and the type, and the Event rows are those the
\* store held when the operation started: none inserted, none modified.
C8_EventConflictFailsAsAWhole ==
  [][\A p \in Procs :
       (CreateFails(p) /\ loc[p].error.cls = "ConflictError"
          /\ loc[p].error.message[1] = "Event")
         => /\ ~result'[p].success
            /\ result'[p].message =
                 <<"Event", loc[p].eventData.name, "of type", loc[p].eventData.type,
                   "already exists with different description">>
            /\ events' = loc[p].before.events]_vars

\* The members of a rule set, whatever their order; none for null and for
\* an absent rule set.
RuleMembers(r) == {r.members[k] : k \in DOMAIN r.members}

\* C9: when a non-deleted Property with the candidate's (name, type) exists,
\* a candidate with another description is refused with the Conflict
\* "different description" (whatever its rules), a candidate with the same
\* description and another rule set with the Conflict "different validation
\* rules", and no Property row is inserted or modified.
C9_PropertyConflict ==
  [][\A p \in Procs : \A e \in DOMAIN properties :
       LET d == loc'[p].propertyData
           conflict(what) == ConflictError(<<"Property", d.name, "of type", d.type, what>>)
       IN (PropertyResolved(p) /\ SameProperty(e, d))
            => /\ properties[e].description # d.description
                   => /\ pc'[p] = "catch"
                      /\ loc'[p].error = conflict("already exists with different description")
                      /\ properties' = properties
               /\ (/\ properties[e].description = d.description
                   /\ RuleMembers(properties[e].validation_rules)
                        # RuleMembers(d.validation_rules))
                   => /\ pc'[p] = "catch"
                      /\ loc'[p].error = conflict("already exists with different validation rules")
                      /\ properties' = properties]_vars

\* A candidate that differs from the stored Property in its description and
\* in its rules has been refused for its description.
C9_Witness ==
  \E p \in Procs : \E e \in DOMAIN properties :
    /\ pc[p] = "catch"
    /\ loc[p].error.cls = "ConflictError"
    /\ loc[p].error.message[5] = "already exists with different description"
    /\ SameProperty(e, loc[p].propertyData)
    /\ RuleMembers(properties[e].validation_rules)
         # RuleMembers(loc[p].propertyData.validation_rules)

\* C10: a non-deleted Property whose stored rules are null is reused for a
\* candidate with its name, type and description that omits the rules: same
\* row, no insert, no error.
C10_NullUndefinedReuse ==
  [][\A p \in Procs : \A e \in DOMAIN properties :
       (/\ PropertyResolved(p)
        /\ SameProperty(e, loc'[p].propertyData)
        /\ properties[e].description = loc'[p].propertyData.description
        /\ properties[e].validation_rules = RNull
        /\ loc'[p].propertyData.validation_rules = RUndefined)
         => /\ pc'[p] = "ep_save"
            /\ loc'[p].property = e
            /\ loc'[p].error = NoError
            /\ properties' = properties]_vars

\* A createTrackingPlan has resolved a property without rules to a row with
\* null rules that a committed link already refers to.
C10_Witness ==
  \E p \in Procs :
    /\ pc[p] = "ep_save"
    /\ req[p].kind = "createTrackingPlan"
    /\ loc[p].propertyData.validation_rules = RUndefined
    /\ properties[loc[p].property].validation_rules = RNull
    /\ \E r \in ep : r.property_id = loc[p].property

\* C11: the comparison of rule sets does not depend on the order of the
\* keys: a candidate with the name, type and description of a non-deleted
\* Property and a non-empty rule set holding the same keys with the same
\* values as the stored one is judged equal (reuse, no Conflict), whatever
\* the order of the keys in the candidate and in the row the store returns.
C11_KeyOrderIndependent ==
  [][\A p \in Procs : \A e \in DOMAIN properties :
       LET d == loc'[p].propertyData
       IN (/\ PropertyResolved(p)
           /\ SameProperty(e, d)
           /\ properties[e].description = d.description
           /\ RuleMembers(d.validation_rules) # {}
           /\ RuleMembers(properties[e].validation_rules)
                = RuleMembers(d.validation_rules))
            => /\ pc'[p] = "ep_save"
               /\ loc'[p].property = e
               /\ loc'[p].error = NoError]_vars

\* C12: an absent rule set, a null rule set and an empty rule object are
\* equal to one another: a non-deleted Property stored with {} or with null
\* is reused (same row, no Conflict, no insert) for a candidate with its
\* name, type and description whose rules are omitted or {}.
C12_EmptyEqualsAbsent ==
  [][\A p \in Procs : \A e \in DOMAIN properties :
       LET d == loc'[p].propertyData
       IN (/\ PropertyResolved(p)
           /\ SameProperty(e, d)
           /\ properties[e].description = d.description
           /\ properties[e].validation_rules \in {RNull, RulesEmpty}
           /\ d.validation_rules \in {RUndefined, RulesEmpty})
            => /\ pc'[p] = "ep_save"
               /\ loc'[p].property = e
               /\ loc'[p].error = NoError
               /\ properties' = properties]_vars

\* The ids of the Property rows that the nested property references of a
\* list of response events carry.
ReferencedProperties(evs) ==
  UNION {{evs[k].properties[m].id : m \in DOMAIN evs[k].properties} : k \in DOMAIN evs}

\* The property references that the submission of process p has resolved so
\* far: those of its finished events and those of the event in progress.
ResolvedReferences(p) ==
  ReferencedProperties(loc[p].createdEvents)
    \cup {loc[p].createdProperties[m].id : m \in DOMAIN loc[p].createdProperties}

\* Rows a and b of properties have the same (name, type).
SameIdentity(a, b) ==
  /\ properties[a].name = properties[b].name
  /\ properties[a].type = properties[b].type

NameHeld(name) ==
  \E i \in DOMAIN plans : plans[i].name = name /\ ~plans[i].is_deleted

\* C14: a createTrackingPlan whose name is that of a non-deleted plan goes
\* from its name check to its failure with the error "TrackingPlan <name>
\* already exists", and neither step writes: the plan, event, property and
\* link tables, the first plan's row and links among them, stay as they were.
C14_DuplicateNameRefused ==
  [][\A p \in Procs :
       /\ (/\ pc[p] \in {"idle", "done"}
           /\ req'[p].kind = "createTrackingPlan"
           /\ NameHeld(req'[p].data.name))
            => /\ pc'[p] = "catch"
               /\ loc'[p].error = UniqueConstraintError("TrackingPlan", <<req'[p].data.name>>)
               /\ store' = store
       /\ (/\ pc[p] = "catch"
           /\ req[p].kind = "createTrackingPlan"
           /\ loc[p].error.cls = "UniqueConstraintError")
            => /\ pc'[p] = "done"
               /\ ~result'[p].success
               /\ result'[p].message = <<"TrackingPlan", req[p].data.name, "already exists">>
               /\ response'[p].message = result'[p].message
               /\ store' = store]_vars

\* A createTrackingPlan was refused for the name of a plan that has a
\* committed link; the plan and the link are in the store.
C14_Witness ==
  \E p \in Procs : \E i \in DOMAIN plans :
    /\ pc[p] = "done"
    /\ ~result[p].success
    /\ result[p].message = <<"TrackingPlan", plans[i].name, "already exists">>
    /\ ~plans[i].is_deleted
    /\ Len(plans) = 1
    /\ \E r \in tpe : r.tracking_plan_id = i /\ ~r.is_deleted

\* A soft-deleted plan other than plan id bears the name.
NameHeldByDeleted(name, id) ==
  \E i \in DOMAIN plans : i # id /\ plans[i].name = name /\ plans[i].is_deleted

C15_WitnessCreate ==
  \E p \in Procs :
    /\ pc[p] = "done"
    /\ result[p].code = "CREATE_TRACKING_PLAN_ERROR"
    /\ Includes(result[p].message, "tracking_plans(name)")
    /\ Len(plans) = 1
    /\ plans[1].is_deleted

\* Some row of events, deleted or not, has the identity of d.
EventRowOf(d) ==
  \E e \in DOMAIN events : events[e].name = d.name /\ events[e].type = d.type

\* Some row of properties, deleted or not, has the identity of d.
PropertyRowOf(d) ==
  \E e \in DOMAIN properties :
     properties[e].name = d.name /\ properties[e].type = d.type

PresentNotNumeric(r, k) ==
  \E m \in DOMAIN r.members : r.members[m].key = k /\ r.members[m].val.t # "number"

\* The rule set has a regex that does not compile.
RegexDoesNotCompile(r) ==
  \E m \in DOMAIN r.members :
     r.members[m].key = "regex" /\ ~RegExpCompiles(r.members[m].val)

\* The rule set of definition d is one that must be refused.
Malformed(d) ==
  \/ /\ d.type \in {"string", "number"}
     /\ \/ PresentNotNumeric(d.validation_rules, "min")
        \/ PresentNotNumeric(d.validation_rules, "max")
  \/ RegexDoesNotCompile(d.validation_rules)

\* C17: when no non-deleted Property has the candidate's identity, a
\* candidate of type string or number whose rules hold a min or a max that
\* is not a number, and a candidate of any type whose regex does not
\* compile, is refused with a Validation error and nothing is inserted:
\* the resolver throws it, and createProperty never goes on to its insert.
C17_MalformedRulesRejected ==
  [][\A p \in Procs :
       /\ (/\ PropertyResolved(p)
           /\ ~\E e \in DOMAIN properties : SameProperty(e, loc'[p].propertyData)
           /\ Malformed(loc'[p].propertyData))
            => /\ pc'[p] = "catch"
               /\ loc'[p].error.cls = "ValidationError"
               /\ properties' = properties
       /\ (pc[p] \in {"idle", "done"} /\ req'[p].kind = "createProperty")
            => ~Malformed(req'[p].data)]_vars

\* The same statement for the rule sets whose malformed member is truthy.
C17_TruthyMalformedRulesRejected ==
  [][\A p \in Procs :
       LET truthy(d) == \A m \in DOMAIN d.validation_rules.members :
                           Truthy(d.validation_rules.members[m].val)
       IN /\ (/\ PropertyResolved(p)
              /\ ~\E e \in DOMAIN properties : SameProperty(e, loc'[p].propertyData)
              /\ Malformed(loc'[p].propertyData)
              /\ truthy(loc'[p].propertyData))
               => /\ pc'[p] = "catch"
                  /\ loc'[p].error.cls = "ValidationError"
                  /\ properties' = properties
          /\ (pc[p] \in {"idle", "done"} /\ req'[p].kind = "createProperty")
               => ~(Malformed(req'[p].data) /\ truthy(req'[p].data))]_vars

\* The error kind of an error class: one of the four domain kinds, or the
\* unexpected storage failure.
KindOfClass(cls) ==
  IF cls \in {"ValidationError", "ConflictError", "UniqueConstraintError", "NotFoundError"}
  THEN cls ELSE "StorageFailure"

\* The messages of the Validation errors.
ValidationMessages ==
  {"String property min length must be a number",
   "String property max length must be a number",
   "String property regex must be a string",
   "Number property min value must be a number",
   "Number property max value must be a number",
   "Boolean property enum must be an array",
   "Invalid regex pattern in validation rules"}

\* The error kind that a failure message tells.
KindOfMessage(msg) ==
  IF Includes(msg, "not found") THEN "NotFoundError"
  ELSE IF Includes(msg, "already exists") THEN "UniqueConstraintError"
  ELSE IF \/ Includes(msg, "already exists with different description")
          \/ Includes(msg, "already exists with different validation rules")
  THEN "ConflictError"
  ELSE IF \E k \in DOMAIN msg : msg[k] \in ValidationMessages THEN "ValidationError"
  ELSE "StorageFailure"

\* C18: the code of a failure result of createTrackingPlan and of
\* updateTrackingPlan tells the error kind: a failure never carries the code
\* that a failure of another kind (Validation, Conflict, UniqueConstraint,
\* NotFound, storage failure) carries.
C18_CodeTellsKind ==
  [][\A p, q \in Procs :
       (/\ p # q
        /\ pc[p] = "catch" /\ pc'[p] = "done"
        /\ ~result'[p].success /\ ~result'[p].thrown
        /\ pc[q] = "done"
        /\ ~result[q].success /\ ~result[q].thrown
        /\ result[q].code \in {"CREATE_TRACKING_PLAN_ERROR", "UPDATE_TRACKING_PLAN_ERROR"}
        /\ KindOfMessage(result[q].message) # KindOfClass(loc[p].error.cls))
         => result'[p].code # result[q].code]_vars

\* C19: when an updateTrackingPlan that was given an event list commits,
\* every Plan-Event Link that the plan had before the update is soft-deleted
\* and so is every Event-Property Link of one of those links.
C19_OldLinksSoftDeletedTransitively ==
  [][\A p \in Procs :
       (/\ req[p].kind = "updateTrackingPlan"
        /\ pc[p] = "event_find"
        /\ pc'[p] = "utp_reread")
         => \A r \in tpe :
              r.tracking_plan_id = req[p].id
                => /\ \E s \in tpe' : s.id = r.id /\ s.is_deleted
                   /\ \A x \in ep' :
                        x.tracking_plan_event_id = r.id => x.is_deleted]_vars

\* The part of C19 about the Plan-Event Links alone.
C19_OldPlanEventLinksSoftDeleted ==
  [][\A p \in Procs :
       (/\ req[p].kind = "updateTrackingPlan"
        /\ pc[p] = "event_find"
        /\ pc'[p] = "utp_reread")
         => \A r \in tpe :
              r.tracking_plan_id = req[p].id
                => \E s \in tpe' : s.id = r.id /\ s.is_deleted]_vars

\* C20: in an updateTrackingPlan with an event list, the link to an event
\* that the plan was already linked to is saved without error, its old link
\* having been soft-deleted first, and when the update commits exactly one
\* non-deleted Plan-Event Link exists for each (plan, event) pair of the plan.
C20_RelinkAfterSoftDelete ==
  [][\A p \in Procs :
       /\ (/\ req[p].kind = "updateTrackingPlan"
           /\ pc[p] = "tpe_save"
           /\ \E r \in tpe : /\ r.tracking_plan_id = req[p].id
                             /\ r.event_id = loc[p].event
                             /\ r.id \in tx[p].del
           /\ loc'[p].error # StorageError)
            => /\ pc'[p] = "prop_find"
               /\ loc'[p].error = NoError
       /\ (/\ req[p].kind = "updateTrackingPlan"
           /\ pc[p] = "event_find"
           /\ pc'[p] = "utp_reread")
            => \A r, s \in tpe' :
                 (/\ r.tracking_plan_id = req[p].id
                  /\ s.tracking_plan_id = req[p].id
                  /\ r.event_id = s.event_id
                  /\ ~r.is_deleted /\ ~s.is_deleted)
                   => r = s]_vars

\* A non-deleted plan other than plan id bears the name.
NameHeldByOther(name, id) ==
  \E i \in DOMAIN plans : i # id /\ plans[i].name = name /\ ~plans[i].is_deleted

\* C21: an updateTrackingPlan that changes the name checks it against the
\* other non-deleted plans before it writes: when another non-deleted plan
\* bears the name, the update goes from its start through the name check to
\* the failure "TrackingPlan <name> already exists" and no table changes;
\* an update that supplies the plan's own name skips the check and is never
\* refused for the name.
C21_RenameCheckedExcludingSelf ==
  [][\A p \in Procs :
       /\ (/\ pc[p] \in {"idle", "done"}
           /\ req'[p].kind = "updateTrackingPlan"
           /\ TrackingPlanFindById(req'[p].id) # 0
           /\ NameHeldByOther(req'[p].data.name, req'[p].id))
            => /\ pc'[p] = "utp_checkName"
               /\ store' = store
       /\ (/\ pc[p] = "utp_checkName"
           /\ NameHeldByOther(req[p].data.name, req[p].id)
           /\ loc'[p].error # StorageError)
            => /\ pc'[p] = "catch"
               /\ loc'[p].error = UniqueConstraintError("TrackingPlan", <<req[p].data.name>>)
               /\ store' = store
       /\ (/\ pc[p] = "catch"
           /\ req[p].kind = "updateTrackingPlan"
           /\ loc[p].error.cls = "UniqueConstraintError")
            => /\ pc'[p] = "done"
               /\ ~result'[p].success
               /\ result'[p].message = <<"TrackingPlan", req[p].data.name, "already exists">>
               /\ store' = store
       /\ (/\ req'[p].kind = "updateTrackingPlan"
           /\ req'[p].id \in DOMAIN plans
           /\ ~plans[req'[p].id].is_deleted
           /\ req'[p].data.name = plans[req'[p].id].name)
            => /\ pc'[p] # "utp_checkName"
               /\ loc'[p].error.cls # "UniqueConstraintError"
               /\ loc'[p].error # DuplicateKeyError("tracking_plans(name)")]_vars

\* A rename to the name of another non-deleted plan has been refused; both
\* plans are in the store under their names.
C21_Witness ==
  \E p \in Procs : \E i, j \in DOMAIN plans :
    /\ pc[p] = "done"
    /\ result[p].code = "UPDATE_TRACKING_PLAN_ERROR"
    /\ result[p].message = <<"TrackingPlan", plans[i].name, "already exists">>
    /\ i # j
    /\ ~plans[i].is_deleted /\ ~plans[j].is_deleted

\* An update that supplied the plan's own name has written the plan row.
C21_WitnessOwnName ==
  \E p \in Procs :
    /\ pc[p] = "utp_links"
    /\ req[p].data.name = plans[req[p].id].name

\* The updateTrackingPlan of process p returns a failure result in this step.
UpdateFails(p) ==
  /\ pc[p] = "catch"
  /\ req[p].kind = "updateTrackingPlan"
  /\ pc'[p] = "done"
  /\ ~result'[p].thrown

\* C22: when updateTrackingPlan returns a failure, the plan rows (name and
\* description of the plan among them), the Event rows and the Property
\* rows are those the store held when the operation started, and the link
\* tables hold no row of the operation.
C22_UpdateAllOrNothing ==
  [][\A p \in Procs :
       UpdateFails(p)
         => /\ ~result'[p].success
            /\ plans' = loc[p].before.plans
            /\ events' = loc[p].before.events
            /\ properties' = loc[p].before.properties
            /\ \A r \in tpe' \cup ep' : r.id[1] # tx[p].op]_vars

\* The part of C22 about the links alone: the failing update leaves the
\* link tables as they are and none of its own links in them.
C22_UpdateLeavesNoLink ==
  [][\A p \in Procs :
       UpdateFails(p)
         => /\ tpe' = tpe /\ ep' = ep
            /\ \A r \in tpe' \cup ep' : r.id[1] # tx[p].op]_vars

\* The id names a plan that is not soft-deleted.
LivePlan(id) == id \in DOMAIN plans /\ ~plans[id].is_deleted

\* C23: updateTrackingPlan, deleteTrackingPlan and getTrackingPlanById on
\* an id that names no plan or a soft-deleted plan return a failure whose
\* message says "not found" and write nothing: the update goes from its
\* start to its failure without a write; a delete changes a plan row, and
\* a get returns a plan, only for a plan that is not soft-deleted; and
\* their failures say "TrackingPlan not found" and leave every table as
\* it was.
C23_MissingPlanNotFound ==
  [][\A p \in Procs :
       /\ (/\ pc[p] \in {"idle", "done"}
           /\ req'[p].kind = "updateTrackingPlan"
           /\ ~LivePlan(req'[p].id))
            => /\ pc'[p] = "catch"
               /\ loc'[p].error = NotFoundError("TrackingPlan")
               /\ store' = store
       /\ (/\ pc[p] = "catch"
           /\ req[p].kind = "updateTrackingPlan"
           /\ loc[p].error.cls = "NotFoundError")
            => /\ pc'[p] = "done"
               /\ ~result'[p].success
               /\ Includes(result'[p].message, "not found")
               /\ response'[p].status = 404
               /\ store' = store
       /\ (pc[p] \in {"idle", "done"} /\ pc'[p] = "done" /\ plans' # plans)
            => /\ result'[p].success
               /\ \E id \in DOMAIN plans : LivePlan(id) /\ plans' = SoftDelete(plans, id)
       /\ (/\ pc[p] \in {"idle", "done"} /\ pc'[p] = "done"
           /\ result'[p].success /\ result'[p].id # 0)
            => /\ LivePlan(result'[p].id)
               /\ store' = store
       /\ (/\ pc[p] \in {"idle", "done"} /\ pc'[p] = "done"
           /\ result'[p].code \in {"DELETE_TRACKING_PLAN_ERROR", "GET_TRACKING_PLAN_ERROR"})
            => /\ ~result'[p].success
               /\ result'[p].message = <<"TrackingPlan", "not found">>
               /\ response'[p].status = 404
               /\ store' = store]_vars

\* A getTrackingPlanById of a soft-deleted plan has failed with "not found".
C23_Witness ==
  \E p \in Procs :
    /\ pc[p] = "done"
    /\ result[p].code = "GET_TRACKING_PLAN_ERROR"
    /\ result[p].message = <<"TrackingPlan", "not found">>
    /\ Len(plans) = 1
    /\ plans[1].is_deleted

\* An updateTrackingPlan of a soft-deleted plan has failed with "not found".
C23_WitnessUpdate ==
  \E p \in Procs :
    /\ pc[p] = "done"
    /\ result[p].code = "UPDATE_TRACKING_PLAN_ERROR"
    /\ result[p].message = <<"TrackingPlan", "not found">>
    /\ Len(plans) = 1
    /\ plans[1].is_deleted

\* A deleteTrackingPlan of a soft-deleted plan has failed with "not found".
C23_WitnessDelete ==
  \E p \in Procs :
    /\ pc[p] = "done"
    /\ result[p].code = "DELETE_TRACKING_PLAN_ERROR"
    /\ result[p].message = <<"TrackingPlan", "not found">>
    /\ Len(plans) = 1
    /\ plans[1].is_deleted

\* Only soft-deleted rows of events have the identity of d.
OnlyDeletedEvent(d) ==
  /\ EventRowOf(d)
  /\ ~\E e \in DOMAIN events : SameEvent(e, d)

\* Only soft-deleted rows of properties have the identity of d.
OnlyDeletedProperty(d) ==
  /\ PropertyRowOf(d)
  /\ ~\E e \in DOMAIN properties : SameProperty(e, d)

\* C24: when the candidate's (name, type) is held only by soft-deleted
\* rows, the resolver neither returns such a row nor raises a Conflict,
\* whatever the description and rules of the deleted row: it takes the
\* create-new path (for a property, after the validation of that path) and
\* writes nothing itself.
C24_DeletedRowsNotLookedUp ==
  [][\A p \in Procs :
       /\ (EventResolved(p) /\ OnlyDeletedEvent(loc'[p].eventData))
            => /\ pc'[p] = "event_create"
               /\ loc'[p].error = NoError
               /\ loc'[p].event = 0
               /\ events' = events
       /\ (PropertyResolved(p) /\ OnlyDeletedProperty(loc'[p].propertyData))
            => /\ \/ pc'[p] = "prop_create" /\ loc'[p].error = NoError
                  \/ pc'[p] = "catch" /\ loc'[p].error.cls = "ValidationError"
               /\ loc'[p].property = 0
               /\ properties' = properties]_vars

\* The property resolver has taken the create-new path for an identity held
\* by a soft-deleted row with another description.
C24_Witness ==
  \E p \in Procs :
    /\ pc[p] = "prop_create"
    /\ OnlyDeletedProperty(loc[p].propertyData)
    /\ \E e \in DOMAIN properties :
         /\ properties[e].name = loc[p].propertyData.name
         /\ properties[e].type = loc[p].propertyData.type
         /\ properties[e].description # loc[p].propertyData.description

\* The event resolver has taken the create-new path for an identity held by
\* a soft-deleted row with another description.
C24_WitnessEvent ==
  \E p \in Procs :
    /\ pc[p] = "event_create"
    /\ OnlyDeletedEvent(loc[p].eventData)
    /\ \E e \in DOMAIN events : events[e].description # loc[p].eventData.description

\* C25: a createTrackingPlan or updateTrackingPlan ends committed or rolled
\* back and never both: no invocation is in its catch block, about to roll
\* back, with its transaction committed; and every invocation returns a
\* success or failure result, none throws.
C25_CommitXorRollback ==
  \A p \in Procs :
    /\ ~(pc[p] = "catch" /\ tx[p].state = "committed")
    /\ ~result[p].thrown
    /\ (pc[p] = "done"
          /\ result[p].code \in {"CREATE_TRACKING_PLAN_ERROR", "UPDATE_TRACKING_PLAN_ERROR"})
         => tx[p].state = "rolledback"

\* The part of C25 about createTrackingPlan alone.
C25_CreateCommitXorRollback ==
  [][\A p \in Procs :
       (req[p].kind = "createTrackingPlan" /\ pc'[p] = "done")
         => /\ ~result'[p].thrown
            /\ \/ result'[p].success /\ tx'[p].state = "committed"
               \/ ~result'[p].success /\ tx'[p].state = "rolledback"
            /\ ~(pc[p] = "catch" /\ tx[p].state = "committed")]_vars

\* C26: when a non-deleted Property has the candidate's identity, the
\* resolver ends in a reuse of that row or in a Conflict and never in a
\* Validation error, also for a candidate whose rules would not pass the
\* validation; it writes nothing.
C26_NoValidationOnReusePath ==
  [][\A p \in Procs : \A e \in DOMAIN properties :
       (PropertyResolved(p) /\ SameProperty(e, loc'[p].propertyData))
         => /\ loc'[p].error.cls # "ValidationError"
            /\ \/ /\ pc'[p] = "ep_save"
                  /\ loc'[p].property = e
                  /\ loc'[p].error = NoError
               \/ /\ pc'[p] = "catch"
                  /\ loc'[p].error.cls = "ConflictError"
            /\ properties' = properties]_vars

\* A candidate whose rules would fail the validation has met a stored
\* Property of its identity and description and was refused with the
\* Conflict on the rules.
C26_Witness ==
  \E p \in Procs : \E e \in DOMAIN properties :
    /\ pc[p] = "catch"
    /\ SameProperty(e, loc[p].propertyData)
    /\ validatePropertyRules(loc[p].propertyData.validation_rules,
                             loc[p].propertyData.type) # NoError
    /\ loc[p].error.cls = "ConflictError"
    /\ loc[p].error.message[5] = "already exists with different validation rules"

\* createTrackingPlan of process p takes this step.
CreateStep(p, from, to) ==
  /\ req[p].kind = "createTrackingPlan"
  /\ pc[p] = from
  /\ pc'[p] = to

TrackingPlanStep(p) ==
  /\ \/ req[p].kind \in {"createTrackingPlan", "updateTrackingPlan"}
     \/ req'[p].kind \in {"createTrackingPlan", "updateTrackingPlan"}
  /\ <<pc[p], req[p], loc[p], tx[p]>> # <<pc'[p], req'[p], loc'[p], tx'[p]>>

\* C28: no step of createTrackingPlan or updateTrackingPlan changes an
\* Event or Property row the store already holds, and none changes the
\* event, the property or the flag of a link the store already holds.
C28_ExistingRowsUntouched ==
  [][\A p \in Procs :
       TrackingPlanStep(p)
         => /\ \A e \in DOMAIN events : events'[e] = events[e]
            /\ \A e \in DOMAIN properties : properties'[e] = properties[e]
            /\ \A r \in tpe : \E s \in tpe' :
                 /\ s.id = r.id
                 /\ s.tracking_plan_id = r.tracking_plan_id
                 /\ s.event_id = r.event_id
                 /\ s.additional_properties = r.additional_properties
            /\ \A r \in ep : r \in ep']_vars

\* One Property is required under an event of one plan and optional under
\* an event of another plan.
C28_Witness ==
  \E r \in ep : \E s \in ep : \E a \in tpe : \E b \in tpe :
    /\ r.property_id = s.property_id
    /\ r.required /\ ~s.required
    /\ ~r.is_deleted /\ ~s.is_deleted
    /\ a.id = r.tracking_plan_event_id
    /\ b.id = s.tracking_plan_event_id
    /\ a.tracking_plan_id # b.tracking_plan_id
    /\ ~a.is_deleted /\ ~b.is_deleted

\* updateTrackingPlan of process p takes this step.
UpdateStep(p, from, to) ==
  /\ req[p].kind = "updateTrackingPlan"
  /\ pc[p] = from
  /\ pc'[p] = to

\* The non-deleted Plan-Event links of plan id in the table rows.
LiveLinks(rows, id) == {r \in rows : r.tracking_plan_id = id /\ ~r.is_deleted}

\* The non-deleted Event-Property links of the Plan-Event link id in rows.
LiveProperties(rows, id) == {r \in rows : r.tracking_plan_event_id = id /\ ~r.is_deleted}

C29_WitnessNoList ==
  \E p \in Procs :
    /\ result[p].success
    /\ response[p].status = 200
    /\ tx[p].state = "committed"
    /\ Len(result[p].events) = 1
    /\ \A r \in LiveLinks(tpe, result[p].id) : r.id[1] # tx[p].op

\* No two rows of links, soft-deleted ones included, have the same plan
\* and event; no two rows of props the same Plan-Event link and property.
UniqueLinkRows(links, props) ==
  /\ Cardinality({<<r.tracking_plan_id, r.event_id>> : r \in links})
       = Cardinality(links)
  /\ Cardinality({<<r.tracking_plan_event_id, r.property_id>> : r \in props})
       = Cardinality(props)

\* Process p is about to commit its create or update in this step, all
\* submitted events handled.
CommitsList(p) ==
  /\ tx[p].state = "active"
  /\ tx'[p].state = "committed"
  /\ pc[p] = "event_find"

\* C30: the link tables, together with the links pending in a transaction,
\* never hold two Plan-Event links of one (plan, event) pair nor two
\* Event-Property links of one (link, property) pair, soft-deleted rows
\* included; a create or update that commits has written one link for each
\* submitted event, all for different events, and under each of them one
\* link for each submitted property, all for different properties, so a
\* list naming an event or a property twice does not reach the commit.
C30_UniqueLinks ==
  [][\A p \in Procs :
          /\ <<tpe, ep, tx[p]>> # <<tpe', ep', tx'[p]>>
               => UniqueLinkRows(tpe' \cup tx'[p].tpe, ep' \cup tx'[p].ep)
          /\ (pc[p] = "prop_find" /\ pc'[p] = "event_find")
               => Cardinality({r \in tx[p].ep : r.tracking_plan_event_id = loc[p].tpe})
                    = loc[p].j - 1
          /\ CommitsList(p)
               => /\ Cardinality(tx[p].tpe) = loc[p].i - 1
                  /\ Cardinality({r.event_id : r \in tx[p].tpe}) = loc[p].i - 1
                  /\ \A l \in tx[p].tpe :
                       Cardinality({r.property_id : r \in LiveProperties(tx[p].ep, l.id)})
                         = Cardinality(LiveProperties(tx[p].ep, l.id))]_vars

\* A request whose list names one event twice is in its catch block: the
\* second save of the link was refused by the index, the first link being
\* pending in the same transaction.
C30_Witness ==
  \E p \in Procs : \E r \in tx[p].tpe :
    /\ pc[p] = "catch"
    /\ loc[p].i = 2
    /\ r.event_id = loc[p].event
    /\ r.tracking_plan_id = loc[p].trackingPlan
    /\ Includes(loc[p].error.message, "tracking_plan_events(tracking_plan_id,event_id)")

\* A request whose event names one property twice is in its catch block.
C30_WitnessProperty ==
  \E p \in Procs : \E r \in tx[p].ep :
    /\ pc[p] = "catch"
    /\ loc[p].j = 2
    /\ r.property_id = loc[p].property
    /\ r.tracking_plan_event_id = loc[p].tpe
    /\ Includes(loc[p].error.message, "event_properties(tracking_plan_event_id,property_id)")

====
